---- MODULE Spec2Model ----
(***************************************************************************)
(* The music cog of Coco-bot (src/extensions/music/music.py): the registry *)
(* voice_states of per-guild VoiceState sessions and the command handlers  *)
(* that run on them as asyncio tasks.  A handler runs without interruption *)
(* between two awaits that really suspend; every action below is one such  *)
(* uninterrupted segment.  The class VoiceState (voicestate.py) is not     *)
(* among the sources: its operations are modelled from section 4.2 of the  *)
(* specification.  The extension lists of Config (src/config/config.py)    *)
(* and the calls that move a name between them are modelled after it.      *)
(***************************************************************************)
EXTENDS Integers, Sequences, FiniteSets, TLC

\* ---------------------------------------------------------------- bounds
NumProcs == 2        \* command handlers in flight at the same time
MaxSessions == 2     \* VoiceState objects constructed in one run
MaxStreams == 3      \* streams started in one run
MaxQueue == 2        \* tracks waiting in one session's queue
NumTracks == 2       \* distinct tracks the resolver can return
MaxPagedLen == 11    \* tracks in the queue that the queue command pages through
NumExtensions == 3   \* extension names that calls and the configuration file use
MaxListed == 2       \* entries of one extension list in the configuration file

Procs == 1..NumProcs
Guilds == {"g1"}
Tracks == 1..NumTracks
\* A query is the track it resolves to; for query 0 the resolver raises YTDLError.
Queries == 0..NumTracks
\* The positions a remove command is given (one below and two above the range).
Indexes == (0 - 1)..(MaxQueue + 2)
None == 0
Extensions == 1..NumExtensions       \* extension 1: the music cog
DefaultVolume == 100
\* The volume of a session is kept in hundredths: volume / 100 of the command's
\* percentage is that many hundredths.
VolumeScale == 100
\* The volume argument: absent (Optional), or a percentage.
Percents == {0 - 1, 0, 150, 200, 201, 250}
VolumeArgs == {<<>>} \cup {<<v>> : v \in Percents}

VARIABLES
    voice_states,   \* Music.voice_states: guild -> session id, None when absent
    sessions,       \* every VoiceState constructed so far, by session id; the field
                    \* deleted records that leave took it out of voice_states
    streams,        \* every stream handle the audio sink has started
    ctx,            \* per handler: where it is suspended and its ctx.voice_state
    last,           \* the last command (or completion signal) that finished, and
                    \* what it sent to the user
    extensions_enabled,     \* Config.extensions_enabled
    extensions_disabled,    \* Config.extensions_disabled
    config_json             \* the two lists as save last wrote them to config.json,
                            \* <<>> while this run has not written the file

vars == <<voice_states, sessions, streams, ctx, last,
          extensions_enabled, extensions_disabled, config_json>>

musicvars == <<voice_states, sessions, streams, ctx>>
cfgvars == <<extensions_enabled, extensions_disabled, config_json>>

\* --------------------------------------------------------------- helpers
RemoveAt(q, k) == [i \in 1..(Len(q) - 1) |-> IF i < k THEN q[i] ELSE q[i + 1]]

Perms(q) ==
    {p \in [1..Len(q) -> 1..Len(q)] : \A i, j \in 1..Len(q) : p[i] = p[j] => i = j}

Permute(q, p) == [i \in 1..Len(q) |-> q[p[i]]]

\* q[a:b] as a sequence slice is taken: a negative bound counts from the end,
\* and both bounds are clamped to the sequence.
SliceBound(n, x) == IF x < 0 THEN (IF n + x < 0 THEN 0 ELSE n + x)
                    ELSE (IF x > n THEN n ELSE x)

Slice(q, a, b) ==
    LET lo == SliceBound(Len(q), a)
        hi == SliceBound(Len(q), b)
    IN  [k \in 1..(IF hi > lo THEN hi - lo ELSE 0) |-> q[lo + k]]

\* math.ceil(n / items_per_page)
items_per_page == 10
PageCount(n) == (n + items_per_page - 1) \div items_per_page

\* The lines numbered from 1 on every page: enumerate without start=start.
QueueLines_from_one(q, page) ==
    LET start == (page - 1) * items_per_page
        end == start + items_per_page
        shown == Slice(q, start, end)
    IN  [k \in 1..Len(shown) |-> [label |-> (k - 1) + 1, song |-> shown[k]]]

\* The lines of the embed the queue command sends for a page, each the label it
\* prints and the track it prints it for.
QueueLines(q, page) ==
    LET start == (page - 1) * items_per_page
        end == start + items_per_page
        shown == Slice(q, start, end)
    IN  [k \in 1..Len(shown) |-> [label |-> (start + k - 1) + 1, song |-> shown[k]]]

\* The program state the session operations work on.
World == [voice_states |-> voice_states, sessions |-> sessions, streams |-> streams]

Commit(w) ==
    /\ voice_states' = w.voice_states
    /\ sessions' = w.sessions
    /\ streams' = w.streams

IdleCtx == [pc |-> "idle", guild |-> "g1", vs |-> None, query |-> 0]

Sent(cmd, s, arg, reply) ==
    [cmd |-> cmd, vs |-> s, arg |-> arg, reply |-> reply, shown |-> <<>>]

\* ------------------------------------------------- VoiceState (section 4.2)
NewVoiceState(g) ==
    [guild |-> g, voice |-> FALSE, songs |-> <<>>, current |-> None,
     state |-> "Idle", loop |-> FALSE, volume |-> DefaultVolume, stream |-> None,
     deleted |-> FALSE]

is_playing(w, s) == w.sessions[s].state # "Idle"

is_paused(w, s) == w.sessions[s].state = "Paused"

\* StreamHandle.stop(): the stream goes silent; its completion signal is still
\* raised once by the sink and has to be ignored by the session.
StopStream(w, h) ==
    IF h = None THEN w
    ELSE [w EXCEPT !.streams[h].live = FALSE,
                   !.streams[h].stops = w.streams[h].stops + 1]

\* startNext(): the looped current track or the front of the queue becomes the
\* current track and is streamed; with nothing to play the session is Idle.
StartNext(w, s) ==
    LET v == w.sessions[s]
        looped == v.loop /\ v.current # None
    IN  IF ~looped /\ v.songs = <<>>
        THEN [w EXCEPT !.sessions[s].state = "Idle",
                       !.sessions[s].current = None,
                       !.sessions[s].stream = None]
        ELSE [w EXCEPT !.sessions[s].state = "Playing",
                       !.sessions[s].current = IF looped THEN v.current ELSE Head(v.songs),
                       !.sessions[s].songs = IF looped THEN v.songs ELSE Tail(v.songs),
                       !.sessions[s].stream = Len(w.streams) + 1,
                       !.streams = Append(w.streams,
                                          [owner |-> s, live |-> TRUE, stops |-> 0,
                                           signalled |-> FALSE])]

connect(w, s) == [w EXCEPT !.sessions[s].voice = TRUE]

move_to(w, s) == w

add_song(w, s, track) ==
    LET w1 == [w EXCEPT !.sessions[s].songs = Append(w.sessions[s].songs, track)]
    IN  IF w.sessions[s].state = "Idle" THEN StartNext(w1, s) ELSE w1

vs_stop(w, s) ==
    LET w1 == StopStream(w, w.sessions[s].stream)
    IN  [w1 EXCEPT !.sessions[s].songs = <<>>,
                   !.sessions[s].current = None,
                   !.sessions[s].state = "Idle",
                   !.sessions[s].stream = None]

vs_pause(w, s) == [w EXCEPT !.sessions[s].state = "Paused"]

vs_resume(w, s) == [w EXCEPT !.sessions[s].state = "Playing"]

vs_skip(w, s) == StartNext(StopStream(w, w.sessions[s].stream), s)

songs_remove(w, s, k) ==
    [w EXCEPT !.sessions[s].songs = RemoveAt(w.sessions[s].songs, k + 1)]

songs_remove_raises(w, s, k) == k < 0 \/ k >= Len(w.sessions[s].songs)

vs_shuffle(w, s, p) ==
    [w EXCEPT !.sessions[s].songs = Permute(w.sessions[s].songs, p)]

\* What a session operation may start: a bound of the model, not of the code.
CanStart(w) == Len(w.streams) < MaxStreams

\* ---------------------------------------------------------------- Music
\* The configuration the cog runs under: the music extension is enabled.
MusicConfig ==
    /\ extensions_enabled = <<1>>
    /\ extensions_disabled = <<>>
    /\ config_json = <<>>

InitMusic ==
    /\ voice_states = [g \in Guilds |-> None]
    /\ sessions = <<>>
    /\ streams = <<>>
    /\ ctx = [p \in Procs |-> IdleCtx]
    /\ last = Sent("none", None, 0, "none")

Init == InitMusic /\ MusicConfig

\* _get_voice_state without the lookup: a session is constructed and stored for
\* every command.
get_voice_state_always_new(w, g) ==
    [w |-> [w EXCEPT !.voice_states[g] = Len(w.sessions) + 1,
                     !.sessions = Append(w.sessions, NewVoiceState(g))],
     vs |-> Len(w.sessions) + 1]

\* Music._get_voice_state: the guild's session, constructed and stored when the
\* registry has none.  No await: the lookup and the insert are one segment.
get_voice_state(w, g) ==
    IF w.voice_states[g] # None
    THEN [w |-> w, vs |-> w.voice_states[g]]
    ELSE [w |-> [w EXCEPT !.voice_states[g] = Len(w.sessions) + 1,
                          !.sessions = Append(w.sessions, NewVoiceState(g))],
          vs |-> Len(w.sessions) + 1]

\* Music.cog_before_invoke, as far as the model's bound on sessions allows it.
\* ctx.author.voice: None, or the voice state of a user who is in a channel.
AuthorVoices == {None, 1}

\* A check that lets every user through.
cog_check_passes_all(author_voice) == TRUE

\* cog_check: the command is invoked for users who are in a voice channel only.
cog_check(author_voice) == author_voice # None

CanInvoke(g) == voice_states[g] # None \/ Len(sessions) < MaxSessions

\* _is_playing that takes a paused session for one that plays nothing.
playing_check_not_paused(w, s) == w.sessions[s].state = "Playing"

\* _is_playing(ctx): what the session's is_playing() says ("Nothing is playing."
\* is sent by the caller's branch in the model).
playing_check(w, s) == is_playing(w, s)

\* What starting the next track needs, and whether the model's bound allows it.
Starts(w, s) ==
    (w.sessions[s].loop /\ w.sessions[s].current # None) \/ w.sessions[s].songs # <<>>

Begin(p, g, s, pc, q) ==
    ctx' = [ctx EXCEPT ![p] = [pc |-> pc, guild |-> g, vs |-> s, query |-> q]]

Finish(p) == ctx' = [ctx EXCEPT ![p] = IdleCtx]

\* join, up to its await of connect or move_to.
Join(p, g) ==
    /\ ctx[p].pc = "idle"
    /\ CanInvoke(g)
    /\ LET r == get_voice_state(World, g)
       IN  /\ Commit(r.w)
           /\ Begin(p, g, r.vs, IF r.w.sessions[r.vs].voice THEN "move" ELSE "connect", 0)
    /\ UNCHANGED last
    /\ UNCHANGED cfgvars

JoinConnect(p) ==
    /\ ctx[p].pc = "connect"
    /\ Commit(connect(World, ctx[p].vs))
    /\ Finish(p)
    /\ last' = Sent("join", ctx[p].vs, 0, "connected")
    /\ UNCHANGED cfgvars

JoinMove(p) ==
    /\ ctx[p].pc = "move"
    /\ Commit(move_to(World, ctx[p].vs))
    /\ Finish(p)
    /\ last' = Sent("join", ctx[p].vs, 0, "moved")
    /\ UNCHANGED cfgvars

\* leave, up to its await of stop.
Leave(p, g) ==
    /\ ctx[p].pc = "idle"
    /\ CanInvoke(g)
    /\ LET r == get_voice_state(World, g)
       IN  /\ Commit(r.w)
           /\ IF ~r.w.sessions[r.vs].voice
              THEN /\ UNCHANGED ctx
                   /\ last' = Sent("leave", r.vs, 0, "I am not in a voice channel.")
              ELSE /\ Begin(p, g, r.vs, "leave_stop", 0)
                   /\ UNCHANGED last
    /\ UNCHANGED cfgvars

LeaveStop(p) ==
    /\ ctx[p].pc = "leave_stop"
    /\ Commit(vs_stop(World, ctx[p].vs))
    /\ ctx' = [ctx EXCEPT ![p].pc = "leave_del"]
    /\ UNCHANGED last
    /\ UNCHANGED cfgvars

\* del self.voice_states[ctx.guild.id]: KeyError when the guild has no entry.
LeaveDel(p) ==
    /\ ctx[p].pc = "leave_del"
    /\ LET g == ctx[p].guild
           s == voice_states[g]
       IN  IF s = None
           THEN /\ UNCHANGED <<voice_states, sessions, streams>>
                /\ last' = Sent("leave", ctx[p].vs, 0, "KeyError")
           ELSE /\ voice_states' = [voice_states EXCEPT ![g] = None]
                /\ sessions' = [sessions EXCEPT ![s].deleted = TRUE]
                /\ UNCHANGED streams
                /\ last' = Sent("leave", ctx[p].vs, 0, "left")
    /\ Finish(p)
    /\ UNCHANGED cfgvars

\* play, up to its first await: of join's connect, or of add_song.
Play(p, g, q) ==
    /\ ctx[p].pc = "idle"
    /\ CanInvoke(g)
    /\ LET r == get_voice_state(World, g)
       IN  /\ Commit(r.w)
           /\ Begin(p, g, r.vs, IF r.w.sessions[r.vs].voice THEN "play_add" ELSE "play_connect", q)
    /\ UNCHANGED last
    /\ UNCHANGED cfgvars

PlayConnect(p) ==
    /\ ctx[p].pc = "play_connect"
    /\ Commit(connect(World, ctx[p].vs))
    /\ ctx' = [ctx EXCEPT ![p].pc = "play_add"]
    /\ UNCHANGED last
    /\ UNCHANGED cfgvars

\* play that takes every query for a track: without the except YTDLError branch.
PlayAdd_unchecked(p) ==
    /\ ctx[p].pc = "play_add"
    /\ LET s == ctx[p].vs
           q == ctx[p].query
       IN  /\ Len(sessions[s].songs) < MaxQueue
           /\ sessions[s].state = "Idle" => CanStart(World)
           /\ Commit(add_song(World, s, q))
           /\ last' = Sent("play", s, q, "Enqued:")
    /\ Finish(p)
    /\ UNCHANGED cfgvars

\* add_song returns or raises YTDLError, and play sends its answer.
PlayAdd(p) ==
    /\ ctx[p].pc = "play_add"
    /\ LET s == ctx[p].vs
           q == ctx[p].query
       IN  IF q \notin Tracks
           THEN /\ UNCHANGED <<voice_states, sessions, streams>>
                /\ last' = Sent("play", s, q, "An error occurred while processing this request")
           ELSE /\ Len(sessions[s].songs) < MaxQueue
                /\ sessions[s].state = "Idle" => CanStart(World)
                /\ Commit(add_song(World, s, q))
                /\ last' = Sent("play", s, q, "Enqued:")
    /\ Finish(p)
    /\ UNCHANGED cfgvars

\* stop, up to its await of the session's stop.
Stop(p, g) ==
    /\ ctx[p].pc = "idle"
    /\ CanInvoke(g)
    /\ LET r == get_voice_state(World, g)
       IN  /\ Commit(r.w)
           /\ IF playing_check(r.w, r.vs)
              THEN /\ Begin(p, g, r.vs, "stop_stop", 0)
                   /\ UNCHANGED last
              ELSE /\ UNCHANGED ctx
                   /\ last' = Sent("stop", r.vs, 0, "Nothing is playing.")
    /\ UNCHANGED cfgvars

\* stop that goes on like leave and deletes the guild's entry.
StopStop_deletes(p) ==
    /\ ctx[p].pc = "stop_stop"
    /\ Commit([vs_stop(World, ctx[p].vs) EXCEPT !.voice_states[ctx[p].guild] = None])
    /\ Finish(p)
    /\ last' = Sent("stop", ctx[p].vs, 0, "reaction stop")
    /\ UNCHANGED cfgvars

StopStop(p) ==
    /\ ctx[p].pc = "stop_stop"
    /\ Commit(vs_stop(World, ctx[p].vs))
    /\ Finish(p)
    /\ last' = Sent("stop", ctx[p].vs, 0, "reaction stop")
    /\ UNCHANGED cfgvars

\* pause without the is_paused() test.
Pause_unchecked(g) ==
    /\ CanInvoke(g)
    /\ LET r == get_voice_state(World, g)
       IN  IF ~playing_check(r.w, r.vs)
           THEN Commit(r.w) /\ last' = Sent("pause", r.vs, 0, "Nothing is playing.")
           ELSE Commit(vs_pause(r.w, r.vs)) /\ last' = Sent("pause", r.vs, 0, "reaction pause")
    /\ UNCHANGED ctx
    /\ UNCHANGED cfgvars

Pause(g) ==
    /\ CanInvoke(g)
    /\ LET r == get_voice_state(World, g)
       IN  IF ~playing_check(r.w, r.vs)
           THEN Commit(r.w) /\ last' = Sent("pause", r.vs, 0, "Nothing is playing.")
           ELSE IF is_paused(r.w, r.vs)
           THEN Commit(r.w) /\ last' = Sent("pause", r.vs, 0, "Already paused.")
           ELSE Commit(vs_pause(r.w, r.vs)) /\ last' = Sent("pause", r.vs, 0, "reaction pause")
    /\ UNCHANGED ctx
    /\ UNCHANGED cfgvars

Resume(g) ==
    /\ CanInvoke(g)
    /\ LET r == get_voice_state(World, g)
       IN  IF ~playing_check(r.w, r.vs)
           THEN Commit(r.w) /\ last' = Sent("resume", r.vs, 0, "Nothing is playing.")
           ELSE IF ~is_paused(r.w, r.vs)
           THEN Commit(r.w) /\ last' = Sent("resume", r.vs, 0, "Not paused.")
           ELSE Commit(vs_resume(r.w, r.vs)) /\ last' = Sent("resume", r.vs, 0, "reaction resume")
    /\ UNCHANGED ctx
    /\ UNCHANGED cfgvars

\* skip with the session's stop() called where skip() is meant.
Skip_calls_stop(g) ==
    /\ CanInvoke(g)
    /\ LET r == get_voice_state(World, g)
       IN  IF ~playing_check(r.w, r.vs)
           THEN Commit(r.w) /\ last' = Sent("skip", r.vs, 0, "Nothing is playing.")
           ELSE /\ Commit(vs_stop(r.w, r.vs))
                /\ last' = Sent("skip", r.vs, 0, "reaction skip")
    /\ UNCHANGED ctx
    /\ UNCHANGED cfgvars

\* skip with the session's skip() called twice.
Skip_twice(g) ==
    /\ CanInvoke(g)
    /\ LET r == get_voice_state(World, g)
       IN  IF ~playing_check(r.w, r.vs)
           THEN Commit(r.w) /\ last' = Sent("skip", r.vs, 0, "Nothing is playing.")
           ELSE /\ Len(r.w.streams) + 2 <= MaxStreams
                /\ Commit(vs_skip(vs_skip(r.w, r.vs), r.vs))
                /\ last' = Sent("skip", r.vs, 0, "reaction skip")
    /\ UNCHANGED ctx
    /\ UNCHANGED cfgvars

Skip(g) ==
    /\ CanInvoke(g)
    /\ LET r == get_voice_state(World, g)
       IN  IF ~playing_check(r.w, r.vs)
           THEN Commit(r.w) /\ last' = Sent("skip", r.vs, 0, "Nothing is playing.")
           ELSE /\ Starts(r.w, r.vs) => CanStart(r.w)
                /\ Commit(vs_skip(r.w, r.vs))
                /\ last' = Sent("skip", r.vs, 0, "reaction skip")
    /\ UNCHANGED ctx
    /\ UNCHANGED cfgvars

\* remove that hands the position to songs.remove as it is, not index - 1.
Remove_untranslated(g, index) ==
    /\ CanInvoke(g)
    /\ LET r == get_voice_state(World, g)
       IN  IF songs_remove_raises(r.w, r.vs, index)
           THEN Commit(r.w) /\ last' = Sent("remove", r.vs, index, "Invalid position.")
           ELSE Commit(songs_remove(r.w, r.vs, index))
                /\ last' = Sent("remove", r.vs, index, "reaction done")
    /\ UNCHANGED ctx
    /\ UNCHANGED cfgvars

Remove(g, index) ==
    /\ CanInvoke(g)
    /\ LET r == get_voice_state(World, g)
       IN  IF songs_remove_raises(r.w, r.vs, index - 1)
           THEN Commit(r.w) /\ last' = Sent("remove", r.vs, index, "Invalid position.")
           ELSE Commit(songs_remove(r.w, r.vs, index - 1))
                /\ last' = Sent("remove", r.vs, index, "reaction done")
    /\ UNCHANGED ctx
    /\ UNCHANGED cfgvars

\* loop that switches looping on, never off: the flag is set, not negated.
Loop_always_on(g) ==
    /\ CanInvoke(g)
    /\ LET r == get_voice_state(World, g)
           s == r.vs
       IN  IF ~playing_check(r.w, s)
           THEN Commit(r.w) /\ last' = Sent("loop", s, 0, "Nothing is playing.")
           ELSE /\ Commit([r.w EXCEPT !.sessions[s].loop = TRUE])
                /\ last' = Sent("loop", s, 0, "Song will now loop.")
    /\ UNCHANGED ctx
    /\ UNCHANGED cfgvars

Loop(g) ==
    /\ CanInvoke(g)
    /\ LET r == get_voice_state(World, g)
           s == r.vs
       IN  IF ~playing_check(r.w, s)
           THEN Commit(r.w) /\ last' = Sent("loop", s, 0, "Nothing is playing.")
           ELSE /\ Commit([r.w EXCEPT !.sessions[s].loop = ~r.w.sessions[s].loop])
                /\ last' = Sent("loop", s, 0,
                                IF r.w.sessions[s].loop THEN "Song will now not loop."
                                ELSE "Song will now loop.")
    /\ UNCHANGED ctx
    /\ UNCHANGED cfgvars

\* shuffle that refuses the empty queue only: len(songs) < 1 for <= 1.
Shuffle_single(g) ==
    /\ CanInvoke(g)
    /\ LET r == get_voice_state(World, g)
           s == r.vs
       IN  IF Len(r.w.sessions[s].songs) < 1
           THEN Commit(r.w) /\ last' = Sent("shuffle", s, 0, "Not enough songs in queue")
           ELSE \E p \in Perms(r.w.sessions[s].songs) :
                    /\ Commit(vs_shuffle(r.w, s, p))
                    /\ last' = Sent("shuffle", s, 0, "reaction shuffle")
    /\ UNCHANGED ctx
    /\ UNCHANGED cfgvars

Shuffle(g) ==
    /\ CanInvoke(g)
    /\ LET r == get_voice_state(World, g)
           s == r.vs
       IN  IF Len(r.w.sessions[s].songs) <= 1
           THEN Commit(r.w) /\ last' = Sent("shuffle", s, 0, "Not enough songs in queue")
           ELSE \E p \in Perms(r.w.sessions[s].songs) :
                    /\ Commit(vs_shuffle(r.w, s, p))
                    /\ last' = Sent("shuffle", s, 0, "reaction shuffle")
    /\ UNCHANGED ctx
    /\ UNCHANGED cfgvars

Volume(g, volume) ==
    /\ CanInvoke(g)
    /\ LET r == get_voice_state(World, g)
           s == r.vs
           cmd == IF volume = <<>> THEN "volume (no argument)" ELSE "volume"
           arg == IF volume = <<>> THEN 0 ELSE volume[1]
       IN  IF ~playing_check(r.w, s)
           THEN Commit(r.w) /\ last' = Sent(cmd, s, arg, "Nothing is playing.")
           ELSE IF volume = <<>>
           THEN Commit(r.w) /\ last' = Sent(cmd, s, arg, "Volume is")
           ELSE IF 0 <= volume[1] /\ volume[1] <= 200
           THEN /\ Commit([r.w EXCEPT !.sessions[s].volume = (volume[1] * VolumeScale) \div 100])
                /\ last' = Sent(cmd, s, arg, "Volume is")
           ELSE Commit(r.w) /\ last' = Sent(cmd, s, arg, "Volume must be between 0 and 200 %")
    /\ UNCHANGED ctx
    /\ UNCHANGED cfgvars

Queue(g, page) ==
    /\ CanInvoke(g)
    /\ LET r == get_voice_state(World, g)
           q == r.w.sessions[r.vs].songs
       IN  /\ Commit(r.w)
           /\ last' = IF Len(q) = 0
                       THEN Sent("queue", r.vs, page, "Empty queue")
                       ELSE [Sent("queue", r.vs, page, "embed") EXCEPT
                                !.shown = QueueLines(q, page)]
    /\ UNCHANGED ctx
    /\ UNCHANGED cfgvars

\* The audio sink raises the completion signal of stream h: at the natural end of
\* a stream that is playing, or late, for a stream that was stopped.  The session
\* honours it only for the stream it holds.
Completion(h) ==
    /\ h \in 1..Len(streams)
    /\ ~streams[h].signalled
    /\ streams[h].live => sessions[streams[h].owner].state = "Playing"
    /\ LET s == streams[h].owner
           w1 == [World EXCEPT !.streams[h].signalled = TRUE, !.streams[h].live = FALSE]
       IN  IF sessions[s].stream = h
           THEN /\ Starts(w1, s) => CanStart(w1)
                /\ Commit(StartNext(w1, s))
                /\ last' = Sent("completion", s, h, "advance")
           ELSE /\ Commit(w1)
                /\ last' = Sent("completion", s, h, "ignored")
    /\ UNCHANGED ctx
    /\ UNCHANGED cfgvars

Now(g) ==
    /\ CanInvoke(g)
    /\ LET r == get_voice_state(World, g)
       IN  /\ Commit(r.w)
           /\ last' = Sent("now", r.vs, 0,
                           IF playing_check(r.w, r.vs) THEN "embed" ELSE "Nothing is playing.")
    /\ UNCHANGED ctx
    /\ UNCHANGED cfgvars

\* A command as the framework invokes it: cog_check first, and only when it
\* returns True cog_before_invoke and the command itself, here now.  The message
\* cog_check hands to ctx.send is never awaited; the framework raises
\* CheckFailure.
Invoke(g, author_voice) ==
    /\ IF ~cog_check(author_voice)
       THEN /\ UNCHANGED <<voice_states, sessions, streams>>
            /\ last' = Sent("invoke", None, author_voice, "CheckFailure")
       ELSE /\ CanInvoke(g)
            /\ LET r == get_voice_state(World, g)
               IN  /\ Commit(r.w)
                   /\ last' = Sent("invoke", r.vs, author_voice,
                                   IF playing_check(r.w, r.vs) THEN "embed"
                                   ELSE "Nothing is playing.")
    /\ UNCHANGED ctx
    /\ UNCHANGED cfgvars

\* The handlers that suspend (join, leave, play, stop) on a guild whose session
\* comes and goes, with now standing for the commands that run in one segment.
Next ==
    \/ \E p \in Procs, g \in Guilds : Join(p, g)
    \/ \E p \in Procs : JoinConnect(p)
    \/ \E p \in Procs : JoinMove(p)
    \/ \E p \in Procs, g \in Guilds : Leave(p, g)
    \/ \E p \in Procs : LeaveStop(p)
    \/ \E p \in Procs : LeaveDel(p)
    \/ \E p \in Procs, g \in Guilds, q \in Queries : Play(p, g, q)
    \/ \E p \in Procs : PlayConnect(p)
    \/ \E p \in Procs : PlayAdd(p)
    \/ \E p \in Procs, g \in Guilds : Stop(p, g)
    \/ \E p \in Procs : StopStop(p)
    \/ \E g \in Guilds : Now(g)

Spec == Init /\ [][Next]_vars

\* Playback on the session of a guild that the bot does not leave: play, the
\* transport commands and the audio sink's completion signals.
NextPlayback ==
    \/ \E p \in Procs, g \in Guilds, q \in Queries : Play(p, g, q)
    \/ \E p \in Procs : PlayConnect(p)
    \/ \E p \in Procs : PlayAdd(p)
    \/ \E p \in Procs, g \in Guilds : Stop(p, g)
    \/ \E p \in Procs : StopStop(p)
    \/ \E g \in Guilds : Pause(g)
    \/ \E g \in Guilds : Resume(g)
    \/ \E g \in Guilds : Skip(g)
    \/ \E g \in Guilds : Loop(g)
    \/ \E h \in 1..MaxStreams : Completion(h)

SpecPlayback == Init /\ [][NextPlayback]_vars

\* The queue commands on the same session: tracks are added and played, and
\* taken out of the queue or shuffled in it.
NextQueue ==
    \/ \E p \in Procs, g \in Guilds, q \in Queries : Play(p, g, q)
    \/ \E p \in Procs : PlayConnect(p)
    \/ \E p \in Procs : PlayAdd(p)
    \/ \E g \in Guilds : Skip(g)
    \/ \E g \in Guilds, i \in Indexes : Remove(g, i)
    \/ \E g \in Guilds : Shuffle(g)
    \/ \E h \in 1..MaxStreams : Completion(h)

SpecQueue == Init /\ [][NextQueue]_vars

\* Commands of users in and out of voice channels, on a guild whose session
\* comes and goes.
NextCheck ==
    \/ \E g \in Guilds, a \in AuthorVoices : Invoke(g, a)
    \/ \E p \in Procs, g \in Guilds : Join(p, g)
    \/ \E p \in Procs : JoinConnect(p)
    \/ \E p \in Procs : JoinMove(p)
    \/ \E p \in Procs, g \in Guilds : Leave(p, g)
    \/ \E p \in Procs : LeaveStop(p)
    \/ \E p \in Procs : LeaveDel(p)

SpecCheck == Init /\ [][NextCheck]_vars

\* The volume command on a session that plays, is paused, and runs out of tracks.
NextVolume ==
    \/ \E p \in Procs, g \in Guilds, q \in Queries : Play(p, g, q)
    \/ \E p \in Procs : PlayConnect(p)
    \/ \E p \in Procs : PlayAdd(p)
    \/ \E g \in Guilds : Pause(g)
    \/ \E g \in Guilds, v \in VolumeArgs : Volume(g, v)
    \/ \E h \in 1..MaxStreams : Completion(h)

SpecVolume == Init /\ [][NextVolume]_vars

\* A session that is playing track c with n more tracks queued behind it, as
\* plays of alternating tracks leave it.
PagedQueue(n, c) == [i \in 1..n |-> ((c + i - 1) % NumTracks) + 1]

InitPaging ==
    /\ \E n \in 0..MaxPagedLen, c \in Tracks :
            sessions = << [NewVoiceState("g1") EXCEPT
                              !.voice = TRUE, !.songs = PagedQueue(n, c),
                              !.current = c, !.state = "Playing", !.stream = 1] >>
    /\ voice_states = [g \in Guilds |-> 1]
    /\ streams = << [owner |-> 1, live |-> TRUE, stops |-> 0, signalled |-> FALSE] >>
    /\ ctx = [p \in Procs |-> IdleCtx]
    /\ last = Sent("none", None, 0, "none")
    /\ MusicConfig

Pages == (0 - 1)..(PageCount(MaxPagedLen) + 1)
Positions == 0..(MaxPagedLen + 1)

\* The queue of that session is paged through and tracks are taken out of it.
NextPaging ==
    \/ \E g \in Guilds, page \in Pages : Queue(g, page)
    \/ \E g \in Guilds, i \in Positions : Remove(g, i)

SpecPaging == InitPaging /\ [][NextPaging]_vars

\* --------------------------------------------------------------- Config
\* extension in list
In(extension, list) == \E i \in 1..Len(list) : list[i] = extension

\* list.remove(extension): the first entry equal to extension is taken out.
ListRemove(list, extension) ==
    RemoveAt(list, CHOOSE i \in 1..Len(list) :
                       /\ list[i] = extension
                       /\ \A j \in 1..(i - 1) : list[j] # extension)

\* save: the configuration, the two lists in it, is written to config.json.
save(enabled, disabled) == <<enabled, disabled>>

\* enable_extension that does not take the extension out of the disabled list.
enable_extension_no_remove(extension) ==
    /\ IF In(extension, extensions_disabled)
       THEN /\ extensions_disabled' = extensions_disabled
            /\ extensions_enabled' = Append(extensions_enabled, extension)
            /\ config_json' = save(extensions_enabled', extensions_disabled')
            /\ last' = Sent("enable_extension", None, extension, "saved")
       ELSE /\ UNCHANGED cfgvars
            /\ last' = Sent("enable_extension", None, extension,
                            IF In(extension, extensions_enabled)
                            THEN "Extension is already enabled."
                            ELSE "Extension {extension} not found")
    /\ UNCHANGED musicvars

enable_extension(extension) ==
    /\ IF In(extension, extensions_disabled)
       THEN /\ extensions_disabled' = ListRemove(extensions_disabled, extension)
            /\ extensions_enabled' = Append(extensions_enabled, extension)
            /\ config_json' = save(extensions_enabled', extensions_disabled')
            /\ last' = Sent("enable_extension", None, extension, "saved")
       ELSE /\ UNCHANGED cfgvars
            /\ last' = Sent("enable_extension", None, extension,
                            IF In(extension, extensions_enabled)
                            THEN "Extension is already enabled."
                            ELSE "Extension {extension} not found")
    /\ UNCHANGED musicvars

disable_extension(extension) ==
    /\ IF In(extension, extensions_enabled)
       THEN /\ extensions_enabled' = ListRemove(extensions_enabled, extension)
            /\ extensions_disabled' = Append(extensions_disabled, extension)
            /\ config_json' = save(extensions_enabled', extensions_disabled')
            /\ last' = Sent("disable_extension", None, extension, "saved")
       ELSE /\ UNCHANGED cfgvars
            /\ last' = Sent("disable_extension", None, extension,
                            IF In(extension, extensions_disabled)
                            THEN "Extension is already disabled."
                            ELSE "Extension {extension} not found")
    /\ UNCHANGED musicvars

\* The lists a configuration file can give: of up to MaxListed names each, a name
\* possibly more than once in a list, no name in both lists.
ListSet(list) == {list[i] : i \in 1..Len(list)}
Lists == UNION {[1..n -> Extensions] : n \in 0..MaxListed}

InitConfig ==
    /\ InitMusic
    /\ extensions_enabled \in Lists
    /\ extensions_disabled \in Lists
    /\ ListSet(extensions_enabled) \cap ListSet(extensions_disabled) = {}
    /\ config_json = <<>>

NextConfig ==
    \/ \E e \in Extensions : enable_extension(e)
    \/ \E e \in Extensions : disable_extension(e)

SpecConfig == InitConfig /\ [][NextConfig]_vars

\* ------------------------------------------------------------ the claims
\* The session a step works on, as it was before the step (a command may have
\* constructed it in the step itself).
Before(s) == IF s \in DOMAIN sessions THEN sessions[s] ELSE NewVoiceState("g1")

\* A command that runs in one segment, or a completion signal, ran in this step.
Ran(cmd) == ctx' = ctx /\ last'.cmd = cmd

\* Handler p left the await it was suspended at.
Resumed(p, pc) == ctx[p].pc = pc /\ ctx'[p].pc # pc

Advanced ==
    \/ Ran("skip") /\ last'.reply = "reaction skip"
    \/ Ran("completion") /\ last'.reply = "advance"

\* C1: sequential FIFO playback.  A track added by play to an Idle session is
\* started at once and the queue stays empty; added to a session that plays, it
\* goes to the end of the queue.  With loop off, every skip and every honoured
\* completion signal makes the front of the queue the current track and takes
\* it off the queue, and with an empty queue leaves the session Idle with no
\* current track.
C1_SequentialFifo ==
    [][ /\ \A p \in Procs :
              Resumed(p, "play_add") /\ ctx[p].query \in Tracks =>
                  LET v == sessions[ctx[p].vs]
                      v2 == sessions'[ctx[p].vs]
                  IN  IF v.state = "Idle"
                      THEN v2.state = "Playing" /\ v2.current = ctx[p].query /\ v2.songs = <<>>
                      ELSE /\ v2.songs = Append(v.songs, ctx[p].query)
                           /\ v2.current = v.current /\ v2.state = v.state
        /\ Advanced /\ ~Before(last'.vs).loop =>
              LET v == Before(last'.vs)
                  v2 == sessions'[last'.vs]
              IN  IF v.songs # <<>>
                  THEN v2.state = "Playing" /\ v2.current = Head(v.songs) /\ v2.songs = Tail(v.songs)
                  ELSE v2.state = "Idle" /\ v2.current = None /\ v2.songs = <<>>
      ]_vars

\* Scenario A has run: three tracks were streamed in turn, the first two were
\* skipped and the third ended by itself, which left the session Idle.
C1_Witness ==
    /\ Len(streams) = 3
    /\ streams[1].stops = 1 /\ streams[2].stops = 1
    /\ streams[3].stops = 0 /\ streams[3].signalled
    /\ last.cmd = "completion" /\ last.reply = "advance" /\ last.arg = 3
    /\ sessions[last.vs].state = "Idle"
    /\ sessions[last.vs].current = None
    /\ ~sessions[last.vs].loop

LiveStreams(s) == {h \in 1..Len(streams) : streams[h].owner = s /\ streams[h].live}

\* C2: skips and completion signals in any order.  A session never has two
\* live streams; one skip starts at most one stream and takes at most one track
\* off the queue; and the completion signal of a stream that was skipped or
\* stopped before is ignored: it starts nothing and changes no session.
C2_SkipAndCompletion ==
    /\ [](\A s \in 1..Len(sessions) : Cardinality(LiveStreams(s)) <= 1)
    /\ [][ /\ Ran("skip") =>
                 /\ Len(streams') <= Len(streams) + 1
                 /\ Len(sessions'[last'.vs].songs) >= Len(Before(last'.vs).songs) - 1
                 /\ \A h \in 1..Len(streams) : streams[h].owner = last'.vs => ~streams'[h].live
           /\ Ran("completion") /\ streams[last'.arg].stops > 0 =>
                 /\ last'.reply = "ignored"
                 /\ sessions' = sessions
                 /\ Len(streams') = Len(streams)
         ]_vars

\* Two skips, one right after the other, and then the late completion signal of
\* one of the two skipped streams, while the third stream plays.
C2_Witness ==
    /\ Len(streams) = 3
    /\ streams[1].stops = 1 /\ streams[2].stops = 1
    /\ streams[1].signalled # streams[2].signalled
    /\ streams[3].live
    /\ last.cmd = "completion" /\ last.reply = "ignored"
    /\ sessions[last.vs].stream = 3

LiveSessions(g) == {s \in 1..Len(sessions) : sessions[s].guild = g /\ ~sessions[s].deleted}

\* C3: session creation is atomic per guild.  At any time at most one session of
\* a guild is constructed and not removed by leave, and it is the registered
\* one; a registered session is never replaced by another; a session is only
\* constructed for a guild that has none registered, and is stored at once;
\* and every handler that starts gets the registered session of its guild.
C3_AtomicCreation ==
    /\ [](\A g \in Guilds :
             /\ Cardinality(LiveSessions(g)) <= 1
             /\ voice_states[g] # None => LiveSessions(g) = {voice_states[g]})
    /\ [][ /\ \A g \in Guilds :
                 /\ voice_states[g] # None /\ voice_states'[g] # None
                        => voice_states'[g] = voice_states[g]
                 /\ voice_states[g] = None /\ voice_states'[g] # None
                        => /\ voice_states'[g] = Len(sessions) + 1
                           /\ Len(sessions') = Len(sessions) + 1
           /\ Len(sessions') > Len(sessions) =>
                 /\ Len(sessions') = Len(sessions) + 1
                 /\ voice_states[sessions'[Len(sessions')].guild] = None
                 /\ voice_states'[sessions'[Len(sessions')].guild] = Len(sessions')
           /\ \A p \in Procs :
                 Resumed(p, "idle") =>
                     /\ ctx'[p].vs # None
                     /\ ctx'[p].vs = voice_states'[ctx'[p].guild]
         ]_vars

\* Two first commands of a guild are in flight and share the one session that
\* the first of them constructed.
C3_Witness ==
    /\ Len(sessions) = 1
    /\ \A p \in Procs : ctx[p].pc # "idle" /\ ctx[p].vs = 1
    /\ voice_states["g1"] = 1

\* C4: when a leave on a connected session completes, the guild has no entry in
\* the registry and the session's voice connection is torn down; and a command
\* that starts afterwards never runs on a removed session: the session it gets
\* is not one that leave removed, and one constructed for it is Idle, with an
\* empty queue, no current track and no voice connection.
C4_LeaveRemovesAndDisconnects ==
    [][ /\ \A p \in Procs :
              Resumed(p, "leave_del") /\ last'.reply = "left" =>
                  /\ voice_states'[ctx[p].guild] = None
                  /\ ~sessions'[ctx[p].vs].voice
        /\ \A p \in Procs :
              Resumed(p, "idle") =>
                  /\ ~sessions'[ctx'[p].vs].deleted
                  /\ ctx'[p].vs \notin DOMAIN sessions =>
                         sessions'[ctx'[p].vs] = NewVoiceState(ctx'[p].guild)
      ]_vars

\* C5: two leave commands of one guild.  Every leave that passed the connected
\* check completes without an unhandled error, and what it deletes is the
\* registry entry of its own session.
C5_DoubleLeave ==
    [][ \A p \in Procs :
            Resumed(p, "leave_del") =>
                /\ last'.reply # "KeyError"
                /\ voice_states[ctx[p].guild] = ctx[p].vs
      ]_vars

\* C6: a play that is suspended in join or add_song while a leave completes
\* does not go on to mutate the session that leave removed from the registry:
\* it neither enqueues into it nor starts playback on it.
C6_NoPlayOnRemovedSession ==
    [][ \A p \in Procs :
            /\ Resumed(p, "play_add") \/ Resumed(p, "play_connect")
            /\ sessions[ctx[p].vs].deleted
            => sessions'[ctx[p].vs] = sessions[ctx[p].vs]
      ]_vars

\* C7: the stop command.  Whether it finds the session playing, paused or
\* Idle, the session is Idle with an empty queue and no current track when the
\* command has finished; the stream the session held is then stopped, and no
\* stream is ever stopped more than once.
C7_StopYieldsIdle ==
    /\ [](\A h \in 1..Len(streams) : streams[h].stops <= 1)
    /\ [][ /\ \A p \in Procs :
                 Resumed(p, "stop_stop") =>
                     LET v == sessions[ctx[p].vs]
                         v2 == sessions'[ctx[p].vs]
                     IN  /\ v2.state = "Idle" /\ v2.songs = <<>> /\ v2.current = None
                         /\ v2.stream = None
                         /\ v.stream # None =>
                                streams'[v.stream].stops = 1 /\ ~streams'[v.stream].live
           /\ Ran("stop") /\ last'.reply = "Nothing is playing." =>
                 LET v2 == sessions'[last'.vs]
                 IN  /\ v2.state = "Idle" /\ v2.songs = <<>> /\ v2.current = None
                     /\ LiveStreams(last'.vs) = {}
         ]_vars

\* stop has finished on a session that was playing: its stream is stopped once
\* and has raised no completion signal.
C7_Witness ==
    /\ last.cmd = "stop" /\ last.reply = "reaction stop"
    /\ sessions[last.vs].state = "Idle"
    /\ \E h \in 1..Len(streams) :
           streams[h].owner = last.vs /\ streams[h].stops = 1 /\ ~streams[h].signalled

\* C8: the stop command does not disconnect.  When it finishes, the session's
\* voice connection and the registry are as they were; a guild's entry leaves
\* the registry only in the last segment of a leave, and no other step takes a
\* voice connection down.
C8_StopKeepsConnection ==
    [][ /\ \A p \in Procs :
              Resumed(p, "stop_stop") =>
                  /\ sessions'[ctx[p].vs].voice = sessions[ctx[p].vs].voice
                  /\ sessions'[ctx[p].vs].deleted = sessions[ctx[p].vs].deleted
                  /\ voice_states' = voice_states
        /\ \A g \in Guilds :
              voice_states[g] # None /\ voice_states'[g] = None =>
                  \E p \in Procs : Resumed(p, "leave_del") /\ ctx[p].guild = g
        /\ \A s \in 1..Len(sessions) :
              sessions[s].voice /\ ~sessions'[s].voice =>
                  \E p \in Procs : Resumed(p, "leave_stop") \/ Resumed(p, "leave_del")
      ]_vars

\* stop has finished on a connected, registered session, which is still both.
C8_Witness ==
    /\ last.cmd = "stop" /\ last.reply = "reaction stop"
    /\ sessions[last.vs].voice
    /\ voice_states["g1"] = last.vs

\* C9: pause and resume.  pause succeeds from Playing only and leads to Paused,
\* resume succeeds from Paused only and leads to Playing, and a success changes
\* nothing else of the session; pause from Paused answers "Already paused.",
\* resume from Playing "Not paused.", both from Idle "Nothing is playing.",
\* and these leave the session as it was.
C9_PauseResume ==
    [][ /\ Ran("pause") =>
              LET v == Before(last'.vs)
                  v2 == sessions'[last'.vs]
              IN  CASE v.state = "Playing" ->
                           /\ last'.reply = "reaction pause"
                           /\ v2 = [v EXCEPT !.state = "Paused"]
                    [] v.state = "Paused" ->
                           last'.reply = "Already paused." /\ v2 = v
                    [] v.state = "Idle" ->
                           last'.reply = "Nothing is playing." /\ v2 = v
        /\ Ran("resume") =>
              LET v == Before(last'.vs)
                  v2 == sessions'[last'.vs]
              IN  CASE v.state = "Paused" ->
                           /\ last'.reply = "reaction resume"
                           /\ v2 = [v EXCEPT !.state = "Playing"]
                    [] v.state = "Playing" ->
                           last'.reply = "Not paused." /\ v2 = v
                    [] v.state = "Idle" ->
                           last'.reply = "Nothing is playing." /\ v2 = v
        /\ Ran("pause") \/ Ran("resume") => streams' = streams
      ]_vars

\* A second pause was refused on a paused session that holds a track and a queue.
C9_Witness ==
    /\ last.cmd = "pause" /\ last.reply = "Already paused."
    /\ sessions[last.vs].state = "Paused"
    /\ sessions[last.vs].current # None
    /\ sessions[last.vs].songs # <<>>

\* C10: remove with a position outside 1..n, n the length of the queue, answers
\* "Invalid position." and leaves the queue as it was.
C10_RemoveOutOfRange ==
    [][ Ran("remove") /\ (last'.arg < 1 \/ last'.arg > Len(Before(last'.vs).songs)) =>
            /\ last'.reply = "Invalid position."
            /\ sessions'[last'.vs].songs = Before(last'.vs).songs
      ]_vars

\* Position 0 and a position two past the end were refused on a full queue.
C10_Witness ==
    /\ last.cmd = "remove" /\ last.reply = "Invalid position."
    /\ last.arg \in {0, MaxQueue + 2}
    /\ Len(sessions[last.vs].songs) = MaxQueue

\* C11: remove with a position i in 1..n takes out of the queue the track that the
\* queue command prints with the label i, whatever tracks equal to it the queue
\* holds elsewhere, and the other n - 1 tracks stay in the order they had.
C11_RemoveByPosition ==
    [][ Ran("remove") /\ last'.arg \in 1..Len(Before(last'.vs).songs) =>
            LET q == Before(last'.vs).songs
                q2 == sessions'[last'.vs].songs
                i == last'.arg
                page == ((i - 1) \div 10) + 1
                lines == QueueLines(q, page)
            IN  /\ last'.reply = "reaction done"
                /\ lines[i - (page - 1) * 10] = [label |-> i, song |-> q[i]]
                /\ Len(q2) = Len(q) - 1
                /\ \A j \in 1..(i - 1) : q2[j] = q[j]
                /\ \A j \in i..Len(q2) : q2[j] = q[j + 1]
      ]_vars

\* A track printed on the second page was removed from a queue of two pages, in
\* which the track before it is another one.
C11_Witness ==
    /\ last.cmd = "remove" /\ last.reply = "reaction done"
    /\ last.arg = MaxPagedLen
    /\ last.arg > items_per_page
    /\ Len(sessions[last.vs].songs) = MaxPagedLen - 1

\* Handler p runs play for a query the resolver fails on.
FailingPlay(p) == ctx[p].pc \in {"play_connect", "play_add"} /\ ctx[p].query \notin Tracks

\* C12 as the specification states it: a play whose query the resolver fails on
\* reports the error and changes nothing of the session at any of its steps, the
\* voice connection included, also on a session that was not connected.
C12_FailedPlayChangesNothing ==
    [][ \A p \in Procs :
            FailingPlay(p) /\ ctx'[p] # ctx[p] =>
                /\ sessions'[ctx[p].vs] = sessions[ctx[p].vs]
                /\ Resumed(p, "play_add") =>
                       last'.reply = "An error occurred while processing this request"
      ]_vars

\* C12, amended: a play whose query the resolver fails on reports the error, and
\* the failing add_song changes nothing of any session, of the registry or of the
\* streams; before it, on a session that was not connected, play has connected
\* the session, which is all that step changes, and the session stays connected.
C12_FailedPlayKeepsSession ==
    [][ \A p \in Procs :
            FailingPlay(p) /\ ctx'[p] # ctx[p] =>
                /\ Resumed(p, "play_add") =>
                       /\ last' = Sent("play", ctx[p].vs, ctx[p].query,
                                       "An error occurred while processing this request")
                       /\ UNCHANGED <<voice_states, sessions, streams>>
                /\ Resumed(p, "play_connect") =>
                       /\ sessions' = [sessions EXCEPT ![ctx[p].vs].voice = TRUE]
                       /\ UNCHANGED <<voice_states, streams, last>>
      ]_vars

\* A failed play was the first command on its session: the session is connected,
\* nothing is queued or playing, and no stream was ever started.
C12_Witness ==
    /\ last.cmd = "play"
    /\ last.reply = "An error occurred while processing this request"
    /\ last.arg \notin Tracks
    /\ sessions[last.vs].voice
    /\ sessions[last.vs].state = "Idle" /\ sessions[last.vs].songs = <<>>
    /\ streams = <<>>

\* C13: the volume of every session is always within 0.0 .. 2.0; a volume command
\* with a percentage outside 0..200 is refused and leaves the volume as it was,
\* and one with a percentage v inside 0..200 sets the volume to v / 100.
C13_VolumeRange ==
    /\ [](\A s \in 1..Len(sessions) :
             0 <= sessions[s].volume /\ sessions[s].volume <= 2 * VolumeScale)
    /\ [][ Ran("volume") =>
              IF 0 <= last'.arg /\ last'.arg <= 200
              THEN sessions'[last'.vs].volume * 100 = last'.arg * VolumeScale
              ELSE /\ last'.reply # "Volume is"
                   /\ sessions'[last'.vs].volume = Before(last'.vs).volume
        ]_vars

\* C14: in each of the states Idle, Playing and Paused a volume command with a
\* percentage inside 0..200 is accepted and the session has that volume after it.
C14_VolumeInAnyState ==
    [][ \A st \in {"Idle", "Playing", "Paused"} :
            /\ Ran("volume")
            /\ last'.arg \in 0..200
            /\ Before(last'.vs).state = st
            => /\ last'.reply = "Volume is"
               /\ sessions'[last'.vs].state = st
               /\ sessions'[last'.vs].volume * 100 = last'.arg * VolumeScale
      ]_vars

\* C15: while the loop flag of a session is on and it has a current track, every
\* advance (skip, or the completion of its stream) plays that same track again
\* and leaves the queue as it is; the loop command negates the flag and touches
\* nothing else: no stream is stopped or started by it, and the session keeps
\* its track, state, queue and stream, so the flag acts on the next advance only.
C15_LoopReplaysCurrent ==
    [][ /\ Advanced /\ Before(last'.vs).loop /\ Before(last'.vs).current # None =>
            /\ sessions'[last'.vs].current = sessions[last'.vs].current
            /\ sessions'[last'.vs].state = "Playing"
            /\ sessions'[last'.vs].songs = sessions[last'.vs].songs
            /\ Len(sessions'[last'.vs].songs) = Len(sessions[last'.vs].songs)
            /\ sessions'[last'.vs].loop
        /\ Ran("loop") =>
            /\ streams' = streams
            /\ sessions'[last'.vs] =
                   IF Before(last'.vs).state = "Idle" THEN Before(last'.vs)
                   ELSE [Before(last'.vs) EXCEPT !.loop = ~Before(last'.vs).loop]
            /\ last'.reply = IF Before(last'.vs).state = "Idle" THEN "Nothing is playing."
                             ELSE IF Before(last'.vs).loop THEN "Song will now not loop."
                             ELSE "Song will now loop."
      ]_vars

\* With looping on, the stream of the current track completed while another
\* track was waiting: the current track plays again and the other still waits.
C15_Witness ==
    /\ last.cmd = "completion" /\ last.reply = "advance"
    /\ sessions[last.vs].loop
    /\ sessions[last.vs].state = "Playing"
    /\ sessions[last.vs].current # None
    /\ sessions[last.vs].songs # <<>>
    /\ Head(sessions[last.vs].songs) # sessions[last.vs].current

\* How often track t stands in queue q.
Count(q, t) == Cardinality({i \in 1..Len(q) : q[i] = t})

\* C16: shuffle on a queue of fewer than two tracks changes nothing and answers
\* that there is not enough to shuffle; on a queue of two or more tracks the
\* queue after it holds every track as often as before, and the current track,
\* the playback state and everything else of the session are as they were.
C16_ShufflePermutes ==
    [][ Ran("shuffle") =>
            LET v == Before(last'.vs)
                v2 == sessions'[last'.vs]
            IN  /\ streams' = streams
                /\ v2 = [v EXCEPT !.songs = v2.songs]
                /\ v2.current = v.current /\ v2.state = v.state
                /\ IF Len(v.songs) < 2
                   THEN v2.songs = v.songs /\ last'.reply = "Not enough songs in queue"
                   ELSE /\ last'.reply = "reaction shuffle"
                        /\ Len(v2.songs) = Len(v.songs)
                        /\ \A t \in Tracks : Count(v2.songs, t) = Count(v.songs, t)
      ]_vars

\* A queue of two different tracks was shuffled behind a playing track.
C16_Witness ==
    /\ last.cmd = "shuffle" /\ last.reply = "reaction shuffle"
    /\ Len(sessions[last.vs].songs) = MaxQueue
    /\ \E i, j \in 1..MaxQueue : sessions[last.vs].songs[i] # sessions[last.vs].songs[j]
    /\ sessions[last.vs].state = "Playing"
    /\ sessions[last.vs].current # None

\* C17: on a queue of n >= 1 tracks the queue command for a page p in
\* 1..ceil(n / 10) prints the tracks at the positions (p - 1) * 10 + 1 up to
\* min(p * 10, n), counted from 1, in queue order and each with its position as
\* label; for every page number it leaves the queue, the session, the registry
\* and the streams as they were.
C17_QueuePage ==
    [][ Ran("queue") =>
            LET q == Before(last'.vs).songs
                n == Len(q)
                p == last'.arg
                first == (p - 1) * 10 + 1
                upto == IF p * 10 < n THEN p * 10 ELSE n
            IN  /\ sessions'[last'.vs] = Before(last'.vs)
                /\ voice_states'[sessions'[last'.vs].guild] = last'.vs
                /\ streams' = streams
                /\ n >= 1 /\ p \in 1..PageCount(n) =>
                       /\ last'.reply = "embed"
                       /\ Len(last'.shown) = upto - first + 1
                       /\ \A k \in 1..Len(last'.shown) :
                              /\ last'.shown[k].label = first + k - 1
                              /\ last'.shown[k].song = q[first + k - 1]
      ]_vars

\* The second, last page of a full queue was shown.
C17_Witness ==
    /\ last.cmd = "queue" /\ last.reply = "embed"
    /\ last.arg = PageCount(MaxPagedLen)
    /\ last.arg > 1
    /\ Len(sessions[last.vs].songs) = MaxPagedLen
    /\ last.shown # <<>>
    /\ last.shown[Len(last.shown)].label = MaxPagedLen

\* C18: the queue command on a queue of n >= 1 tracks with a page number outside
\* 1..ceil(n / 10) is answered as an invalid index, not with a page, and leaves
\* the queue as it was.
C18_PageOutOfRange ==
    [][ /\ Ran("queue")
        /\ Len(Before(last'.vs).songs) >= 1
        /\ last'.arg \notin 1..PageCount(Len(Before(last'.vs).songs))
        => /\ last'.reply # "embed"
           /\ sessions'[last'.vs].songs = Before(last'.vs).songs
      ]_vars

\* C19: a command of the music cog that a user outside every voice channel
\* issues is refused before the session of the guild is looked up: no session
\* is constructed, and the registry, the sessions and the streams stay as they
\* were.
C19_CheckBeforeSession ==
    [][ Ran("invoke") /\ last'.arg = None =>
            /\ last'.reply = "CheckFailure"
            /\ last'.vs = None
            /\ voice_states' = voice_states
            /\ sessions' = sessions
            /\ streams' = streams
      ]_vars

\* The command of a user outside every voice channel was refused in a guild that
\* has no session, before and after a session of the guild was removed.
C19_Witness ==
    /\ last.cmd = "invoke" /\ last.reply = "CheckFailure" /\ last.arg = None
    /\ \A g \in Guilds : voice_states[g] = None
    /\ sessions # <<>>

NoRepeat(list) == \A i, j \in 1..Len(list) : list[i] = list[j] => i = j
Disjoint(a, b) == ListSet(a) \cap ListSet(b) = {}
Called == last' # last \/ cfgvars' # cfgvars

\* What C20 says of every call, whatever the lists: the names in the two lists
\* together stay the same, and a call that names an extension already in the
\* list it would be moved to, or in neither list, changes neither list.
CallKeepsNames ==
    /\ ListSet(extensions_enabled') \cup ListSet(extensions_disabled') =
          ListSet(extensions_enabled) \cup ListSet(extensions_disabled)
    /\ (IF last'.cmd = "enable_extension"
        THEN ~In(last'.arg, extensions_disabled) \/ In(last'.arg, extensions_enabled)
        ELSE ~In(last'.arg, extensions_enabled) \/ In(last'.arg, extensions_disabled))
       => /\ extensions_enabled' = extensions_enabled
          /\ extensions_disabled' = extensions_disabled

\* C20 as the specification states it: from lists that share no name, after any
\* calls of enable_extension and disable_extension no name is in both lists, the
\* names in the two lists together are the same, and a call that has nothing to
\* move changes neither list.
C20_ExactlyOneList ==
    /\ [] Disjoint(extensions_enabled, extensions_disabled)
    /\ [][Called => CallKeepsNames]_vars

\* The two lists share no name and none holds a name twice.
EachOnce ==
    /\ Disjoint(extensions_enabled, extensions_disabled)
    /\ NoRepeat(extensions_enabled)
    /\ NoRepeat(extensions_disabled)

\* C20, amended: from lists that share no name and hold no name twice, after any
\* calls of enable_extension and disable_extension the lists still share no name
\* and hold no name twice, the names in the two lists together are the same, and
\* a call that has nothing to move changes neither list.
C20_ExactlyOneListOnce ==
    [][ Called /\ EachOnce => EachOnce' /\ CallKeepsNames ]_vars

\* An extension was disabled and saved, from lists that held every name once:
\* both lists hold names, none twice and none in both.
C20_Witness ==
    /\ last.cmd = "disable_extension" /\ last.reply = "saved"
    /\ config_json = <<extensions_enabled, extensions_disabled>>
    /\ Len(extensions_enabled) >= 1 /\ Len(extensions_disabled) >= 2
    /\ EachOnce

====
